---------------------------- MODULE Spec2Model ----------------------------
(***************************************************************************)
(* A model of modulegraph2's two leaf components:                          *)
(*   - ObjectGraph (src/modulegraph2/_objectgraph.py): nodes, roots,       *)
(*     attributed edges and the reachability traversal iter_graph;         *)
(*   - the bytecode analyzer extract_bytecode_info                         *)
(*     (src/PyInstaller/lib/modulegraph2/_bytecode_tools.py).              *)
(* Spec is the graph; SpecBytecode is the analyzer.                        *)
(***************************************************************************)
EXTENDS Integers, Sequences, FiniteSets, TLC

VARIABLES
    nodes,      \* ObjectGraph._nodes: identifier -> node object
    roots,      \* ObjectGraph._roots: set of identifiers
    edges,      \* ObjectGraph._edges: <<from id, to id>> -> attribute
    result,     \* outcome of the most recent call: operation, exception, message
    gen,        \* the iter_graph generator the caller holds: where it stands
    stack,      \* iter_graph: the live generator frames, innermost last
    visited,    \* iter_graph: the _visited set shared by all frames
    yielded,    \* iter_graph: the nodes yielded so far, in order
    qit,        \* the iterator a query returned to the caller, read by next()
    hist,       \* history of the add_edge calls on TrackedPair (see below)
    program,    \* analyzer input: the unit tree as written (kinds, statements)
    units,      \* analyzer input: the code objects compiled from source
    work_q,     \* _all_code_objects: the deque of code objects to visit
    parents,    \* _all_code_objects: code object -> chain of enclosing code objects
    all_imports,            \* extract_bytecode_info: the accumulators
    all_globals_written,
    all_globals_read,
    all_func_codes,
    all_class_codes,
    status      \* extract_bytecode_info: "idle", "running", "returned" or the exception

graphVars == <<nodes, roots, edges, result, gen, stack, visited, yielded, qit, hist>>
bcVars == <<program, units, work_q, parents, all_imports, all_globals_written,
            all_globals_read, all_func_codes, all_class_codes, status>>

(***************************************************************************)
(* The universe of inputs.                                                 *)
(***************************************************************************)
Ids == {"a", "b", "c"}

\* Node objects the caller may hold: anything with an "identifier".
Node(i, p) == [identifier |-> i, payload |-> p]

\* The objects of the traversal runs: one per identifier.
IterObjects == {Node("a", 1), Node("b", 1), Node("c", 1)}

\* The objects of the mutator runs: two distinct objects carry the identifier
\* "a", and no object carries "c", which stays absent from the graph.
MutObjects == {Node("a", 1), Node("a", 2), Node("b", 1)}

\* Python's None, as the absent node.
None == [identifier |-> "<None>", payload |-> 0]

\* A reference is an identifier string or a node object (Union[str, T]).
StrRef(i) == [kind |-> "str", identifier |-> i, payload |-> 0]
ObjRef(n) == [kind |-> "obj", identifier |-> n.identifier, payload |-> n.payload]
RefsOf(objects) == {StrRef(i) : i \in Ids} \cup {ObjRef(n) : n \in objects}
MutRefs == RefsOf(MutObjects)

\* Edge attributes are sets of names; merge functions the caller may pass.
AttrNames == {"x"}
Attrs == SUBSET AttrNames
MergeFns == {"None", "union", "second"}

\* The model stops adding edges beyond this many.
MaxEdges == 3

(***************************************************************************)
(* Pure helpers.                                                           *)
(***************************************************************************)
\* dict.get
DictGet(d, k) == IF k \in DOMAIN d THEN d[k] ELSE None

\* d[k] = v on a dict
DictSet(d, k, v) == [x \in (DOMAIN d) \cup {k} |-> IF x = k THEN v ELSE d[x]]

\* find_node that trusts a node object instead of looking it up.
find_node_TrustObject(node) ==
    IF node.kind = "str"
    THEN DictGet(nodes, node.identifier)
    ELSE Node(node.identifier, node.payload)

\* find_node: by the string itself, or by the object's identifier
find_node(node) ==
    IF node.kind = "str"
    THEN DictGet(nodes, node.identifier)
    ELSE DictGet(nodes, node.identifier)

\* The merge function's result dropped for the new attribute.
ApplyMerge_Overwrite(m, current, new) == new

\* merge_attributes(current_edge, edge_attributes)
ApplyMerge(m, current, new) ==
    IF m = "union" THEN current \cup new ELSE new

\* The outcome of a call: the operation, the exception raised ("None" when it
\* returned), its message, and the value returned if any.
Outcome(op, exc, msg) == [op |-> op, exc |-> exc, msg |-> msg, args |-> <<>>]

\* A call that returned value.
Returns(op, value) == [op |-> op, exc |-> "None", msg |-> "", args |-> <<value>>]

\* No reference: the node argument of iter_graph() when it is omitted.
NoRef == [kind |-> "str", identifier |-> "<None>", payload |-> 0]

\* The _visited argument of iter_graph: omitted (None), or a set of
\* identifiers that the caller passes.
NoVisited == [passed |-> FALSE, ids |-> {}]
Visited(ids) == [passed |-> TRUE, ids |-> ids]

\* The caller holds no traversal generator.  A generator is "created" by the
\* call, "running" while next() executes it, "suspended" at a yield, and at
\* its end "exhausted" (StopIteration) or "failed" (an exception left it).
\* fresh tells that the call passed no _visited, so that the generator makes
\* its own empty set, and skip is the content of the set the call passed (the
\* identifiers the traversal will not enter); intact records that no call
\* changed the roots or the edge keys since the generator was created.
NoGen == [state |-> "none", given |-> FALSE, start |-> NoRef, fresh |-> TRUE,
          skip |-> {}, intact |-> TRUE]

\* The caller holds no query iterator.  An iterator is "created" (a generator
\* function that has not run yet), "open" (its set or dict iterator exists:
\* used is the size the container had then, todo what is left to read),
\* "exhausted" or "failed".
NoIter == [op |-> "none", state |-> "none", ref |-> NoRef, used |-> 0, todo |-> {}]

\* The interpreter runs one call at a time: a call is made when no next() is
\* executing.  Suspended generators and open iterators do not block it.
Idle == gen.state # "running"

\* A call that changed the roots or the edge keys is seen by the generator.
Touched(changed) ==
    gen' = IF changed /\ gen.state # "none"
           THEN [gen EXCEPT !.intact = FALSE]
           ELSE gen

\* A call other than next() leaves the generator frames and the iterator alone.
SameIterators == UNCHANGED <<stack, visited, yielded, qit>>

\* History of the calls add_edge made on one pair: pure while every such call
\* passed set-union as merge function, and then all is the union of the
\* attributes those calls supplied.
TrackedPair == <<"a", "b">>

HistAfter(key, attr, merge) ==
    IF key # TrackedPair THEN hist
    ELSE IF hist.pure /\ merge = "union"
         THEN [pure |-> TRUE, all |-> hist.all \cup attr]
         ELSE [pure |-> FALSE, all |-> {}]

(***************************************************************************)
(* ObjectGraph: the mutators.                                              *)
(***************************************************************************)
\* add_node without the test for a stored identifier.
add_node_Replace(node) ==
    /\ Idle
    /\ nodes' = DictSet(nodes, node.identifier, node)
    /\ result' = Outcome("add_node", "None", "")
    /\ SameIterators
    /\ UNCHANGED <<roots, edges, gen, hist>>
    /\ UNCHANGED bcVars

add_node(node) ==
    /\ Idle
    /\ IF node.identifier \in DOMAIN nodes
       THEN /\ result' = Outcome("add_node", "ValueError", "Already have node")
            /\ UNCHANGED nodes
       ELSE /\ nodes' = DictSet(nodes, node.identifier, node)
            /\ result' = Outcome("add_node", "None", "")
    /\ SameIterators
    /\ UNCHANGED <<roots, edges, gen, hist>>
    /\ UNCHANGED bcVars

\* add_root without the lookup.
add_root_Unchecked(node) ==
    /\ Idle
    /\ roots' = roots \cup {node.identifier}
    /\ result' = Outcome("add_root", "None", "")
    /\ Touched(roots' # roots)
    /\ SameIterators
    /\ UNCHANGED <<nodes, edges, hist>>
    /\ UNCHANGED bcVars

\* add_root that replaces the root set by the new root.
add_root_Single(node) ==
    /\ Idle
    /\ LET value == find_node(node) IN
       IF value = None
       THEN /\ result' = Outcome("add_root", "KeyError", "Adding non-existing as root")
            /\ UNCHANGED roots
       ELSE /\ roots' = {value.identifier}
            /\ result' = Outcome("add_root", "None", "")
    /\ Touched(roots' # roots)
    /\ SameIterators
    /\ UNCHANGED <<nodes, edges, hist>>
    /\ UNCHANGED bcVars

add_root(node) ==
    /\ Idle
    /\ LET value == find_node(node) IN
       IF value = None
       THEN /\ result' = Outcome("add_root", "KeyError", "Adding non-existing as root")
            /\ UNCHANGED roots
       ELSE /\ roots' = roots \cup {value.identifier}
            /\ result' = Outcome("add_root", "None", "")
    /\ Touched(roots' # roots)
    /\ SameIterators
    /\ UNCHANGED <<nodes, edges, hist>>
    /\ UNCHANGED bcVars

add_edge(source, destination, edge_attributes, merge_attributes) ==
    /\ Idle
    /\ LET from_node == find_node(source)
           to_node == find_node(destination)
           key == <<from_node.identifier, to_node.identifier>>
       IN
       IF from_node = None
       THEN /\ result' = Outcome("add_edge", "KeyError", "Source not found")
            /\ UNCHANGED <<edges, hist>>
       ELSE IF to_node = None
       THEN /\ result' = Outcome("add_edge", "KeyError", "Destination not found")
            /\ UNCHANGED <<edges, hist>>
       ELSE IF key \notin DOMAIN edges
       THEN /\ Cardinality(DOMAIN edges) < MaxEdges
            /\ edges' = DictSet(edges, key, edge_attributes)
            /\ hist' = HistAfter(key, edge_attributes, merge_attributes)
            /\ result' = Outcome("add_edge", "None", "stored")
       ELSE IF merge_attributes # "None"
       THEN /\ edges' = DictSet(edges, key,
                                ApplyMerge(merge_attributes, edges[key], edge_attributes))
            /\ hist' = HistAfter(key, edge_attributes, merge_attributes)
            /\ result' = Outcome("add_edge", "None", "merged")
       ELSE /\ result' = Outcome("add_edge", "ValueError", "Edge already exists")
            /\ hist' = HistAfter(key, edge_attributes, merge_attributes)
            /\ UNCHANGED edges
    /\ Touched(DOMAIN edges' # DOMAIN edges)
    /\ SameIterators
    /\ UNCHANGED <<nodes, roots>>
    /\ UNCHANGED bcVars

(***************************************************************************)
(* ObjectGraph: outgoing and iter_graph.  Both are generator functions:    *)
(* the call runs nothing, each next() runs the body up to its next yield,  *)
(* and a loop over a set or a dict stops with RuntimeError when the        *)
(* container changed its size since the loop began.                        *)
(***************************************************************************)
\* outgoing with the two ends of the edge key exchanged.
outgoing_Reversed(source) ==
    LET node == find_node(source) IN
    IF node = None THEN {}
    ELSE {k[1] : k \in {e \in DOMAIN edges : e[2] = node.identifier}}

\* outgoing without the test of the edge's source.
outgoing_AnyNode(source) ==
    LET node == find_node(source) IN
    IF node = None THEN {}
    ELSE {k[2] : k \in DOMAIN edges}

\* outgoing(source): the destinations of the stored edges leaving source,
\* nothing when source is absent.  The order of enumeration is that of the
\* dict, which the model leaves open.
outgoing(source) ==
    LET node == find_node(source) IN
    IF node = None THEN {}
    ELSE {k[2] : k \in {e \in DOMAIN edges : e[1] = node.identifier}}

\* A frame of the generator.  "yield": iter_graph(node=n) suspended at
\* "yield start_node".  "roots": the loop "for node in self._roots".
\* "outgoing": the loop "for _, node in self.outgoing(n)".  A loop frame holds
\* the size its container had when the loop began and what is left to read.
Frame(kind, n, used, todo) == [kind |-> kind, node |-> n, used |-> used, todo |-> todo]

Top == stack[Len(stack)]
Pop == SubSeq(stack, 1, Len(stack) - 1)

\* len() of the container a loop frame reads, now.
SizeNow(frame) ==
    IF frame.kind = "roots" THEN Cardinality(roots) ELSE Cardinality(DOMAIN edges)

\* An exception leaves the generator: every frame is unwound.
iter_graph_raise(exc, msg) ==
    /\ gen' = [gen EXCEPT !.state = "failed"]
    /\ stack' = <<>>
    /\ result' = Outcome("iter_graph", exc, msg)
    /\ UNCHANGED <<visited, yielded>>

\* The generator returns to the frame below, or ends with StopIteration.
iter_graph_leave(below) ==
    /\ stack' = below
    /\ IF below = <<>>
       THEN /\ gen' = [gen EXCEPT !.state = "exhausted"]
            /\ result' = Outcome("iter_graph", "StopIteration", "")
       ELSE /\ gen' = [gen EXCEPT !.state = "running"]
            /\ UNCHANGED result
    /\ UNCHANGED <<visited, yielded>>

\* iter_graph that takes every node for visited once one node was yielded.
EnterNode_NoDescent(node, below) ==
    LET start_node == find_node(node) IN
    IF start_node = None
    THEN iter_graph_raise("KeyError", "Start node not found")
    ELSE IF visited # {}
    THEN iter_graph_leave(below)
    ELSE /\ visited' = visited \cup {start_node.identifier}
         /\ yielded' = Append(yielded, start_node)
         /\ stack' = Append(below, Frame("yield", start_node.identifier, 0, {}))
         /\ gen' = [gen EXCEPT !.state = "suspended"]
         /\ result' = Returns("iter_graph", start_node)

\* iter_graph without the test of the visited set.
EnterNode_NoVisitedTest(node, below) ==
    LET start_node == find_node(node) IN
    IF start_node = None
    THEN iter_graph_raise("KeyError", "Start node not found")
    ELSE /\ visited' = visited \cup {start_node.identifier}
         /\ yielded' = Append(yielded, start_node)
         /\ stack' = Append(below, Frame("yield", start_node.identifier, 0, {}))
         /\ gen' = [gen EXCEPT !.state = "suspended"]
         /\ result' = Returns("iter_graph", start_node)

\* The body of iter_graph(node=node, _visited=visited) from its entry to its
\* yield: KeyError for an absent node, return for a visited one, else the
\* node is marked and yielded, and the frame stays suspended at the yield.
\* below is the stack under the new frame.
EnterNode(node, below) ==
    LET start_node == find_node(node) IN
    IF start_node = None
    THEN iter_graph_raise("KeyError", "Start node not found")
    ELSE IF start_node.identifier \in visited
    THEN iter_graph_leave(below)
    ELSE /\ visited' = visited \cup {start_node.identifier}
         /\ yielded' = Append(yielded, start_node)
         /\ stack' = Append(below, Frame("yield", start_node.identifier, 0, {}))
         /\ gen' = [gen EXCEPT !.state = "suspended"]
         /\ result' = Returns("iter_graph", start_node)

\* The call iter_graph(), iter_graph(node=node) or either with a _visited
\* set: a generator is built and nothing of the body runs.  The generator
\* is the one the caller reads from now on: gen, stack, visited and yielded
\* describe it, visited being the _visited set it will use.
iter_graph(node, given, _visited) ==
    /\ Idle
    /\ gen' = [state |-> "created", given |-> given,
               start |-> IF given THEN node ELSE NoRef,
               fresh |-> ~_visited.passed, skip |-> _visited.ids,
               intact |-> TRUE]
    /\ stack' = <<>>
    /\ visited' = _visited.ids
    /\ yielded' = <<>>
    /\ result' = Outcome("iter_graph", "None", "generator")
    /\ UNCHANGED <<nodes, roots, edges, qit, hist>>
    /\ UNCHANGED bcVars

\* next() on a generator that has not run: _visited is created if none was
\* passed, and
\* iter_graph() begins its loop over the roots, iter_graph(node=...) runs to
\* its yield.
iter_graph_first ==
    /\ gen.state = "created"
    /\ IF gen.given
       THEN EnterNode(gen.start, <<>>)
       ELSE /\ stack' = <<Frame("roots", "<roots>", Cardinality(roots), roots)>>
            /\ gen' = [gen EXCEPT !.state = "running"]
            /\ UNCHANGED <<visited, yielded, result>>
    /\ UNCHANGED <<nodes, roots, edges, qit, hist>>
    /\ UNCHANGED bcVars

\* next() on a generator suspended at "yield start_node": the loop over
\* outgoing(start_node) begins, on the edges as they are now.
iter_graph_resume ==
    /\ gen.state = "suspended"
    /\ stack' = Append(Pop, Frame("outgoing", Top.node, Cardinality(DOMAIN edges),
                                  outgoing(ObjRef(nodes[Top.node]))))
    /\ gen' = [gen EXCEPT !.state = "running"]
    /\ UNCHANGED <<nodes, roots, edges, result, visited, yielded, qit, hist>>
    /\ UNCHANGED bcVars

\* next() on a generator that ended: StopIteration again.
iter_graph_ended ==
    /\ gen.state \in {"exhausted", "failed"}
    /\ result' = Outcome("iter_graph", "StopIteration", "")
    /\ UNCHANGED <<nodes, roots, edges, gen, stack, visited, yielded, qit, hist>>
    /\ UNCHANGED bcVars

\* The innermost loop finds its container changed in size.
iter_graph_changed ==
    /\ gen.state = "running"
    /\ Top.used # SizeNow(Top)
    /\ iter_graph_raise("RuntimeError",
                        IF Top.kind = "roots"
                        THEN "Set changed size during iteration"
                        ELSE "dictionary changed size during iteration")
    /\ UNCHANGED <<nodes, roots, edges, qit, hist>>
    /\ UNCHANGED bcVars

\* The innermost loop reads its next element n and enters iter_graph(node=n).
iter_graph_next ==
    /\ gen.state = "running"
    /\ Top.used = SizeNow(Top)
    /\ \E n \in Top.todo :
          EnterNode(IF Top.kind = "roots" THEN StrRef(n) ELSE ObjRef(DictGet(nodes, n)),
                    Append(Pop, [Top EXCEPT !.todo = @ \ {n}]))
    /\ UNCHANGED <<nodes, roots, edges, qit, hist>>
    /\ UNCHANGED bcVars

\* The innermost loop is exhausted: its generator returns.
iter_graph_return ==
    /\ gen.state = "running"
    /\ Top.used = SizeNow(Top)
    /\ Top.todo = {}
    /\ iter_graph_leave(Pop)
    /\ UNCHANGED <<nodes, roots, edges, qit, hist>>
    /\ UNCHANGED bcVars

(***************************************************************************)
(* ObjectGraph: the queries.  find_node, __contains__ and edge_data return *)
(* a value or raise.  roots, nodes, edges, outgoing and incoming return an *)
(* iterator, which the caller reads one element per next().                *)
(***************************************************************************)
\* A query leaves the graph, the traversal and the history untouched.
Query ==
    /\ Idle
    /\ UNCHANGED <<nodes, roots, edges, hist>>
    /\ UNCHANGED bcVars

call_find_node(node) ==
    /\ result' = Returns("find_node", find_node(node))
    /\ UNCHANGED <<gen, stack, visited, yielded, qit>>
    /\ Query

\* __contains__
call_contains(node) ==
    /\ result' = Returns("__contains__", find_node(node) # None)
    /\ UNCHANGED <<gen, stack, visited, yielded, qit>>
    /\ Query

\* The exception classes the graph raises for its failures: a reference to
\* an absent node, a second node with a stored identifier, a second edge on a
\* stored pair without a merge function.
NodeNotFound == "KeyError"
DuplicateNode == "ValueError"
DuplicateEdge == "ValueError"

\* What edge_data(source, destination) returns or raises.
EdgeData(source, destination) ==
    LET from_node == find_node(source)
        to_node == find_node(destination)
        key == <<from_node.identifier, to_node.identifier>>
    IN
    IF from_node = None
    THEN Outcome("edge_data", "KeyError", "Source not found")
    ELSE IF to_node = None
    THEN Outcome("edge_data", "KeyError", "Destination not found")
    ELSE IF key \in DOMAIN edges
    THEN Returns("edge_data", edges[key])
    ELSE Outcome("edge_data", "KeyError", "There is no edge between")

\* edge_data that stores an empty attribute for a missing edge between two
\* stored nodes, as dict.setdefault would.
edge_data_SetDefault(source, destination) ==
    LET from_node == find_node(source)
        to_node == find_node(destination)
        key == <<from_node.identifier, to_node.identifier>>
    IN
    /\ Idle
    /\ SameIterators
    /\ IF from_node # None /\ to_node # None /\ key \notin DOMAIN edges
       THEN /\ edges' = DictSet(edges, key, {})
            /\ result' = Returns("edge_data", {})
       ELSE /\ edges' = edges
            /\ result' = EdgeData(source, destination)
    /\ UNCHANGED <<nodes, roots, gen, hist>>
    /\ UNCHANGED bcVars

edge_data(source, destination) ==
    /\ result' = EdgeData(source, destination)
    /\ UNCHANGED <<gen, stack, visited, yielded, qit>>
    /\ Query

\* incoming(destination): the sources of the stored edges entering destination.
incoming(destination) ==
    LET node == find_node(destination) IN
    IF node = None THEN {}
    ELSE {k[1] : k \in {e \in DOMAIN edges : e[2] = node.identifier}}

\* A set or dict iterator begun now: on the roots, on the dict of nodes or on
\* the dict of edges.
Opened(op, ref, used, todo) ==
    [op |-> op, state |-> "open", ref |-> ref, used |-> used, todo |-> todo]

\* A generator function called and not yet run.
Created(op, ref) ==
    [op |-> op, state |-> "created", ref |-> ref, used |-> 0, todo |-> {}]

\* A query that returns an iterator: qit describes the iterator the caller
\* reads from now on.  The traversal generator is left as it is.
\* roots(): a generator expression, whose iterator on self._roots is taken
\* by the call.
call_roots ==
    /\ qit' = Opened("roots", NoRef, Cardinality(roots), roots)
    /\ UNCHANGED <<gen, stack, visited, yielded>>
    /\ result' = Outcome("roots", "None", "iterator")
    /\ Query

\* nodes(): iter(self._nodes.values()), taken by the call.
call_nodes ==
    /\ qit' = Opened("nodes", NoRef, Cardinality(DOMAIN nodes), DOMAIN nodes)
    /\ UNCHANGED <<gen, stack, visited, yielded>>
    /\ result' = Outcome("nodes", "None", "iterator")
    /\ Query

\* edges(), outgoing(source), incoming(destination): generator functions.
call_edges ==
    /\ qit' = Created("edges", NoRef)
    /\ UNCHANGED <<gen, stack, visited, yielded>>
    /\ result' = Outcome("edges", "None", "iterator")
    /\ Query

call_outgoing(source) ==
    /\ qit' = Created("outgoing", source)
    /\ UNCHANGED <<gen, stack, visited, yielded>>
    /\ result' = Outcome("outgoing", "None", "iterator")
    /\ Query

call_incoming(destination) ==
    /\ qit' = Created("incoming", destination)
    /\ UNCHANGED <<gen, stack, visited, yielded>>
    /\ result' = Outcome("incoming", "None", "iterator")
    /\ Query

\* The first next() of a generator function runs it to its loop: find_node
\* is evaluated (outgoing and incoming return at once for an absent node)
\* and the loop begins on the dict of edges as it is now.
Begun(it) ==
    IF it.state # "created" THEN it
    ELSE IF it.op = "edges"
    THEN Opened("edges", it.ref, Cardinality(DOMAIN edges), DOMAIN edges)
    ELSE IF find_node(it.ref) = None
    THEN [it EXCEPT !.state = "exhausted"]
    ELSE Opened(it.op, StrRef(find_node(it.ref).identifier), Cardinality(DOMAIN edges),
                IF it.op = "outgoing" THEN outgoing(it.ref) ELSE incoming(it.ref))

\* len() of the container an iterator reads, now.
LenNow(it) ==
    IF it.op = "roots" THEN Cardinality(roots)
    ELSE IF it.op = "nodes" THEN Cardinality(DOMAIN nodes)
    ELSE Cardinality(DOMAIN edges)

\* The element an iterator delivers for x, computed from the graph as it is
\* when the element is read.
Element(it, x) ==
    IF it.op \in {"roots", "nodes"} THEN nodes[x]
    ELSE IF it.op = "edges" THEN <<nodes[x[1]], nodes[x[2]], edges[x]>>
    ELSE IF it.op = "outgoing" THEN <<edges[<<it.ref.identifier, x>>], nodes[x]>>
    ELSE <<edges[<<x, it.ref.identifier>>], nodes[x]>>

\* next() on the iterator of a query: RuntimeError when the container changed
\* its size since the loop began, StopIteration at its end, else one element.
\* An iterator that ended raises StopIteration again; the dict iterator that
\* nodes() returned raises its RuntimeError again.
iterator_next ==
    /\ Idle
    /\ qit.state # "none"
    /\ LET it == Begun(qit) IN
       IF it.state = "failed"
       THEN /\ result' = IF it.op = "nodes"
                         THEN Outcome(it.op, "RuntimeError", "changed size during iteration")
                         ELSE Outcome(it.op, "StopIteration", "")
            /\ qit' = it
       ELSE IF it.state = "exhausted"
       THEN /\ result' = Outcome(it.op, "StopIteration", "")
            /\ qit' = it
       ELSE IF it.used # LenNow(it)
       THEN /\ result' = Outcome(it.op, "RuntimeError", "changed size during iteration")
            /\ qit' = [it EXCEPT !.state = "failed", !.todo = {}]
       ELSE IF it.todo = {}
       THEN /\ result' = Outcome(it.op, "StopIteration", "")
            /\ qit' = [it EXCEPT !.state = "exhausted"]
       ELSE \E x \in it.todo :
               /\ result' = Returns(it.op, Element(it, x))
               /\ qit' = [it EXCEPT !.todo = @ \ {x}]
    /\ UNCHANGED <<nodes, roots, edges, gen, stack, visited, yielded, hist>>
    /\ UNCHANGED bcVars

(***************************************************************************)
(* The analyzer's input: a module as written, and its compilation by the   *)
(* interpreter that runs the analyzer (CPython 3.11).                      *)
(*                                                                         *)
(* A module is a tree of units: unit 1 is the module body, every other     *)
(* unit is the body of a def or of a class statement of its parent.  Each  *)
(* unit holds at most one simple statement, and after it the definitions   *)
(* of its children.                                                        *)
(* A class written in a function may read the local y of that function,    *)
(* which makes its body a closure:                                         *)
(*     def u2():                                                           *)
(*         y = 0                                                           *)
(*         class u3:                                                       *)
(*             y                                                           *)
(***************************************************************************)
\* The model analyzes modules with at most this many nested units.
MaxNested == 2

Unit(kind, closure, parent, stmt) ==
    [kind |-> kind, closure |-> closure, parent |-> parent, stmt |-> stmt]

\* The statements a unit of each kind may hold; m is the module named after
\* the unit.
\*   import: import m        from: from m import x     star: from m import *
\*   store:  x = 0           load: x                   pass:  pass
\*   gstore: global x; x = 0                           gload: global x; x
\*   twice:  import m; import m                        both: import m; from m import x
\*   none:   no statement, the unit holds only its definitions
\* A module body may also be a hand-assembled stream whose IMPORT_NAME lacks
\* its two LOAD_CONST:
\*   bare:  IMPORT_NAME first in the stream
\*   mid:   IMPORT_NAME after LOAD_CONST, LOAD_CONST, POP_TOP
\*   wrap0: IMPORT_NAME first, and two LOAD_CONST last in the stream
\*   wrap1: IMPORT_NAME second, after one LOAD_CONST, and a LOAD_CONST last
Malformed == {"bare", "mid", "wrap0", "wrap1"}

StmtsOf(kind) ==
    CASE kind = "module"   -> {"none", "pass", "import", "from", "star", "store", "load", "gstore",
                               "twice", "both"} \cup Malformed
      [] kind = "class"    -> {"none", "pass", "import", "from", "store", "load", "gstore", "gload",
                               "twice", "both"}
      [] kind = "function" -> {"none", "pass", "import", "from", "store", "load", "gstore",
                               "twice", "both"}

\* The units that may be written inside unit q of program p; a hand-assembled
\* stream has none.
NestedIn(p, q) ==
    IF p[q].stmt \in Malformed THEN {}
    ELSE {Unit("function", FALSE, q, s) : s \in StmtsOf("function")}
         \cup {Unit("class", FALSE, q, s) : s \in StmtsOf("class")}
         \cup IF p[q].kind = "function"
              THEN {Unit("class", TRUE, q, s) : s \in StmtsOf("class")}
              ELSE {}

\* The units that enclose unit u.
RECURSIVE Ancestors(_, _)
Ancestors(p, u) ==
    IF p[u].parent = 0 THEN {}
    ELSE {p[u].parent} \cup Ancestors(p, p[u].parent)

\* The statement binds the name x in its unit.
BindsX(stmt) == stmt \in {"store", "from", "both"}

\* No unit reads x where an enclosing function binds it: y is the only
\* variable of a function that a nested unit reads.
NoCapture(p) ==
    \A u \in 1..Len(p) :
        p[u].stmt = "load" =>
            \A a \in Ancestors(p, u) : ~(p[a].kind = "function" /\ BindsX(p[a].stmt))

Children(p, u) == {c \in 1..Len(p) : p[c].parent = u}

\* The body of a def or of a class statement is not empty: without a
\* statement it holds a definition.
HasBody(p) ==
    \A u \in 2..Len(p) : p[u].stmt = "none" => Children(p, u) # {}

\* The analyzed module is p, or p with at most `more` further units written
\* into it.
RECURSIVE ProgramFrom(_, _)
ProgramFrom(p, more) ==
    \/ /\ NoCapture(p)
       /\ HasBody(p)
       /\ program = p
    \/ /\ more > 0
       /\ \E q \in 1..Len(p) : \E u \in NestedIn(p, q) :
              ProgramFrom(Append(p, u), more - 1)

\* The analyzed module has at most MaxNested nested units.
Programs ==
    \E s \in StmtsOf("module") :
        ProgramFrom(<<Unit("module", FALSE, 0, s)>>, MaxNested)

\* The units of a set in increasing order.
RECURSIVE SortedSeq(_)
SortedSeq(S) ==
    IF S = {} THEN <<>>
    ELSE LET m == CHOOSE x \in S : \A y \in S : x <= y
         IN <<m>> \o SortedSeq(S \ {m})

UnitNames == <<"u1", "u2", "u3", "u4", "u5", "u6">>
ModuleNames == <<"m1", "m2", "m3", "m4", "m5", "m6">>

(***************************************************************************)
(* Code objects (types.CodeType) and instructions (dis.Instruction).       *)
(***************************************************************************)
\* inst.arg of an instruction without argument
NoArg == -1
Instr(opname, arg) == [opname |-> opname, arg |-> arg]

\* Constants of co_consts: an integer, None, a tuple of names, the name of
\* unit v, the qualified name of unit v, the code object of unit v.
ConstInt(v) == [t |-> "int", v |-> v, names |-> <<>>]
ConstNone == [t |-> "none", v |-> 0, names |-> <<>>]
ConstTuple(names) == [t |-> "tuple", v |-> 0, names |-> names]
ConstStr(v) == [t |-> "str", v |-> v, names |-> <<>>]
ConstQualname(v) == [t |-> "qualname", v |-> v, names |-> <<>>]
ConstCode(u) == [t |-> "code", v |-> u, names |-> <<>>]

\* An instruction as the compiler first emits it, its operand still the
\* constant or the name it refers to:
\*   const  an entry of co_consts          name  an entry of co_names
\*   gname  an entry of co_names, for LOAD_GLOBAL
\*   fast   an entry of co_varnames        deref the cell or free variable y
\*   raw    a number                       none  no operand
Operand(opname, k, const, name, raw) ==
    [opname |-> opname, k |-> k, const |-> const, name |-> name, raw |-> raw]
OpConst(opname, const) == Operand(opname, "const", const, "", 0)
OpName(opname, name) == Operand(opname, "name", ConstNone, name, 0)
OpGlobal(opname, name) == Operand(opname, "gname", ConstNone, name, 0)
OpFast(opname, name) == Operand(opname, "fast", ConstNone, name, 0)
OpDeref(opname) == Operand(opname, "deref", ConstNone, "y", 0)
OpRaw(opname, raw) == Operand(opname, "raw", ConstNone, "", raw)
OpNone(opname) == Operand(opname, "none", ConstNone, "", NoArg)

\* A global statement anywhere in the module makes x a declared global of
\* the module body.
GlobalDeclared(p) == \E q \in 1..Len(p) : p[q].stmt \in {"gstore", "gload"}

\* x is accessed as a global in unit u: declared so in u, or in the module
\* body of a module that declares it anywhere.
ExplicitGlobal(p, u) ==
    \/ p[u].stmt \in {"gstore", "gload"}
    \/ p[u].kind = "module" /\ GlobalDeclared(p)

\* Binding a name in unit u: STORE_GLOBAL for x declared global, STORE_FAST
\* in a function body, STORE_NAME in a module or class body.
StoreOp(p, u, name) ==
    IF name = "x" /\ ExplicitGlobal(p, u) THEN OpName("STORE_GLOBAL", name)
    ELSE IF p[u].kind = "function" THEN OpFast("STORE_FAST", name)
    ELSE OpName("STORE_NAME", name)

\* Reading x in unit u.
LoadOp(p, u) ==
    IF p[u].kind = "function" \/ ExplicitGlobal(p, u)
    THEN OpGlobal("LOAD_GLOBAL", "x")
    ELSE OpName("LOAD_NAME", "x")

\* import m
ImportCode(p, u) ==
    <<OpConst("LOAD_CONST", ConstInt(0)), OpConst("LOAD_CONST", ConstNone),
      OpName("IMPORT_NAME", ModuleNames[u]), StoreOp(p, u, ModuleNames[u])>>

\* from m import x
FromCode(p, u) ==
    <<OpConst("LOAD_CONST", ConstInt(0)), OpConst("LOAD_CONST", ConstTuple(<<"x">>)),
      OpName("IMPORT_NAME", ModuleNames[u]), OpName("IMPORT_FROM", "x"),
      StoreOp(p, u, "x"), OpNone("POP_TOP")>>

\* The statement of unit u.  pass leaves a NOP when definitions follow it
\* and nothing otherwise.
StmtCode(p, u) ==
    LET stmt == p[u].stmt IN
    CASE stmt = "none"   -> <<>>
      [] stmt = "pass"   -> IF Children(p, u) # {} THEN <<OpNone("NOP")>> ELSE <<>>
      [] stmt = "import" -> ImportCode(p, u)
      [] stmt = "from"   -> FromCode(p, u)
      [] stmt = "twice"  -> ImportCode(p, u) \o ImportCode(p, u)
      [] stmt = "both"   -> ImportCode(p, u) \o FromCode(p, u)
      [] stmt = "star"   -> <<OpConst("LOAD_CONST", ConstInt(0)),
                              OpConst("LOAD_CONST", ConstTuple(<<"*">>)),
                              OpName("IMPORT_NAME", ModuleNames[u]),
                              OpNone("IMPORT_STAR")>>
      [] stmt \in {"store", "gstore"} ->
                            <<OpConst("LOAD_CONST", ConstInt(0)), StoreOp(p, u, "x")>>
      [] stmt \in {"load", "gload"} ->
                            <<LoadOp(p, u), OpNone("POP_TOP")>>

\* The definition of child c in unit u: def, class, or a class whose body
\* closes over y, which the function sets just before.
DefCode(p, u, c) ==
    LET code == OpConst("LOAD_CONST", ConstCode(c))
        bind == StoreOp(p, u, UnitNames[c])
    IN
    IF p[c].kind = "function"
    THEN <<code, OpRaw("MAKE_FUNCTION", 0), bind>>
    ELSE IF ~p[c].closure
    THEN <<OpNone("PUSH_NULL"), OpNone("LOAD_BUILD_CLASS"),
           code, OpRaw("MAKE_FUNCTION", 0),
           OpConst("LOAD_CONST", ConstStr(c)), OpRaw("PRECALL", 2), OpRaw("CALL", 2),
           bind>>
    ELSE <<OpConst("LOAD_CONST", ConstInt(0)), OpDeref("STORE_DEREF"),
           OpNone("PUSH_NULL"), OpNone("LOAD_BUILD_CLASS"),
           OpDeref("LOAD_CLOSURE"), OpRaw("BUILD_TUPLE", 1),
           code, OpRaw("MAKE_FUNCTION", 8),
           OpConst("LOAD_CONST", ConstStr(c)), OpRaw("PRECALL", 2), OpRaw("CALL", 2),
           bind>>

RECURSIVE DefsCode(_, _, _)
DefsCode(p, u, cs) ==
    IF cs = <<>> THEN <<>>
    ELSE DefCode(p, u, Head(cs)) \o DefsCode(p, u, Tail(cs))

\* The start of the stream: the cell of a function whose y is read by a
\* class, the free variable of such a class, RESUME, and in a class body the
\* assignments to __module__ and __qualname__.
Prologue(p, u) ==
    (IF p[u].kind = "function" /\ \E c \in Children(p, u) : p[c].closure
     THEN <<OpDeref("MAKE_CELL")>> ELSE <<>>)
    \o (IF p[u].closure THEN <<OpRaw("COPY_FREE_VARS", 1)>> ELSE <<>>)
    \o <<OpRaw("RESUME", 0)>>
    \o (IF p[u].kind = "class"
        THEN <<OpName("LOAD_NAME", "__name__"), OpName("STORE_NAME", "__module__"),
               OpConst("LOAD_CONST", ConstQualname(u)),
               OpName("STORE_NAME", "__qualname__")>>
        ELSE <<>>)
    \o (IF p[u].closure THEN <<OpDeref("LOAD_CLASSDEREF"), OpNone("POP_TOP")>> ELSE <<>>)

\* The end of the stream: return None.
Epilogue(p, u) ==
    <<OpConst("LOAD_CONST", ConstNone), OpNone("RETURN_VALUE")>>

\* The stream of unit u as emitted.
Emitted(p, u) ==
    Prologue(p, u)
    \o StmtCode(p, u)
    \o DefsCode(p, u, SortedSeq(Children(p, u)))
    \o Epilogue(p, u)

\* The elements of a sequence in the order of their first occurrence.
RECURSIVE FirstUse(_, _)
FirstUse(seq, seen) ==
    IF seq = <<>> THEN seen
    ELSE FirstUse(Tail(seq),
                  IF \E i \in 1..Len(seen) : seen[i] = Head(seq)
                  THEN seen ELSE Append(seen, Head(seq)))

\* list.index(value)
IndexOf(seq, value) == (CHOOSE i \in 1..Len(seq) : seq[i] = value) - 1

IsConstOperand(e) == e.k = "const"
IsNameOperand(e) == e.k \in {"name", "gname"}
IsFastOperand(e) == e.k = "fast"

OperandConsts(es) == [i \in 1..Len(es) |-> es[i].const]
OperandNames(es) == [i \in 1..Len(es) |-> es[i].name]

\* co_consts: the constants in the order of their first use; in a function
\* body the first entry is the docstring, None.
CoConsts(p, u) ==
    FirstUse(OperandConsts(SelectSeq(Emitted(p, u), IsConstOperand)),
             IF p[u].kind = "function" THEN <<ConstNone>> ELSE <<>>)

\* co_names and co_varnames: the names in the order of their first use.
CoNames(p, u) == FirstUse(OperandNames(SelectSeq(Emitted(p, u), IsNameOperand)), <<>>)
CoVarnames(p, u) == FirstUse(OperandNames(SelectSeq(Emitted(p, u), IsFastOperand)), <<>>)

\* inst.arg: the index of the operand in its table; twice the index for
\* LOAD_GLOBAL, whose low bit tells whether NULL is pushed; the cell and free
\* variables are numbered after the locals.
Arg(p, u, e) ==
    CASE e.k = "const" -> IndexOf(CoConsts(p, u), e.const)
      [] e.k = "name"  -> IndexOf(CoNames(p, u), e.name)
      [] e.k = "gname" -> 2 * IndexOf(CoNames(p, u), e.name)
      [] e.k = "fast"  -> IndexOf(CoVarnames(p, u), e.name)
      [] e.k = "deref" -> Len(CoVarnames(p, u))
      [] OTHER -> e.raw

\* The hand-assembled streams; their co_consts is (0, None) and their
\* co_names is (m,).
Assembled(stmt) ==
    CASE stmt = "bare"  -> <<Instr("IMPORT_NAME", 0), Instr("POP_TOP", NoArg),
                             Instr("LOAD_CONST", 1), Instr("RETURN_VALUE", NoArg)>>
      [] stmt = "mid"   -> <<Instr("LOAD_CONST", 0), Instr("LOAD_CONST", 1),
                             Instr("POP_TOP", NoArg),
                             Instr("IMPORT_NAME", 0), Instr("POP_TOP", NoArg),
                             Instr("LOAD_CONST", 1), Instr("RETURN_VALUE", NoArg)>>
      [] stmt = "wrap0" -> <<Instr("IMPORT_NAME", 0), Instr("POP_TOP", NoArg),
                             Instr("LOAD_CONST", 1), Instr("RETURN_VALUE", NoArg),
                             Instr("LOAD_CONST", 0), Instr("LOAD_CONST", 1)>>
      [] stmt = "wrap1" -> <<Instr("LOAD_CONST", 1),
                             Instr("IMPORT_NAME", 0), Instr("POP_TOP", NoArg),
                             Instr("LOAD_CONST", 1), Instr("RETURN_VALUE", NoArg),
                             Instr("LOAD_CONST", 0)>>

\* list(dis.get_instructions(code))
Instructions(p, u) ==
    LET es == Emitted(p, u) IN
    [i \in 1..Len(es) |-> Instr(es[i].opname, Arg(p, u, es[i]))]

CodeObject(p, u) ==
    IF p[u].stmt \in Malformed
    THEN [instructions |-> Assembled(p[u].stmt),
          co_consts |-> <<ConstInt(0), ConstNone>>,
          co_names |-> <<ModuleNames[u]>>,
          co_varnames |-> <<>>]
    ELSE [instructions |-> Instructions(p, u),
          co_consts |-> CoConsts(p, u),
          co_names |-> CoNames(p, u),
          co_varnames |-> CoVarnames(p, u)]

Compile(p) == [u \in 1..Len(p) |-> CodeObject(p, u)]

(***************************************************************************)
(* _bytecode_tools: _extract_single.                                       *)
(***************************************************************************)
\* seq[i] of a Python list or tuple, a negative i counting from the end
PyIndex(seq, i) == IF i < 0 THEN seq[Len(seq) + i + 1] ELSE seq[i + 1]

SetOfSeq(seq) == {seq[i] : i \in 1..Len(seq)}

\* i is an index of the list or tuple; seq[i] raises IndexError otherwise
InRange(seq, i) == -Len(seq) <= i /\ i < Len(seq)

ImportInfo(import_module, import_level, import_names, star_import, is_in_function) ==
    [import_module |-> import_module, import_level |-> import_level,
     import_names |-> import_names, star_import |-> star_import,
     is_in_function |-> is_in_function]

\* What _extract_single has collected so far; error names the exception that
\* ended the scan ("" while there is none).
NoneYet ==
    [imports |-> <<>>, globals_written |-> {}, globals_read |-> {},
     func_codes |-> {}, class_codes |-> {}, error |-> ""]

Raise(acc, exc) == [acc EXCEPT !.error = exc]

\* inst.opname == "IMPORT_NAME"
OnImportName(code, offset, is_function_code, is_class_code, acc) ==
    LET instructions == code.instructions
        inst == PyIndex(instructions, offset)
        fromInst == PyIndex(instructions, offset - 1)
        levelInst == PyIndex(instructions, offset - 2)
    IN
    IF fromInst.opname # "LOAD_CONST" \/ levelInst.opname # "LOAD_CONST"
    THEN Raise(acc, "AssertionError")
    ELSE IF fromInst.arg = NoArg \/ levelInst.arg = NoArg
    THEN Raise(acc, "AssertionError")
    ELSE IF ~InRange(code.co_consts, fromInst.arg) \/ ~InRange(code.co_consts, levelInst.arg)
    THEN Raise(acc, "IndexError")
    ELSE
    LET fromlist == PyIndex(code.co_consts, fromInst.arg)
        level == PyIndex(code.co_consts, levelInst.arg)
        have_star == fromlist.t # "none" /\ "*" \in SetOfSeq(fromlist.names)
        import_names == IF fromlist.t = "none" THEN {}
                        ELSE SetOfSeq(fromlist.names) \ {"*"}
    IN
    IF fromlist.t \notin {"none", "tuple"} \/ inst.arg = NoArg
    THEN Raise(acc, "AssertionError")
    ELSE IF ~InRange(code.co_names, inst.arg)
    THEN Raise(acc, "IndexError")
    ELSE [acc EXCEPT
            !.imports = Append(@, ImportInfo(PyIndex(code.co_names, inst.arg), level.v,
                                             import_names, have_star, is_function_code)),
            !.globals_written =
                IF ~(is_function_code \/ is_class_code) THEN @ \cup import_names ELSE @]

\* inst.opname in ("STORE_NAME", "STORE_NAME")
IsStoreOp(opname) == opname \in {"STORE_NAME", "STORE_NAME"}

\* globals_written.add(code.co_names[const_offset])
OnStore(code, offset, is_function_code, is_class_code, acc) ==
    LET inst == PyIndex(code.instructions, offset) IN
    IF is_class_code /\ inst.opname = "STORE_NAME"
    THEN acc
    ELSE IF inst.arg = NoArg
    THEN Raise(acc, "AssertionError")
    ELSE IF ~InRange(code.co_names, inst.arg)
    THEN Raise(acc, "IndexError")
    ELSE [acc EXCEPT !.globals_written = @ \cup {PyIndex(code.co_names, inst.arg)}]

\* inst.opname in ("LOAD_GLOBAL", "LOAD_NAME")
IsLoadOp(opname) == opname \in {"LOAD_GLOBAL", "LOAD_NAME"}

\* globals_read.add(code.co_names[const_offset])
OnLoad(code, offset, is_function_code, is_class_code, acc) ==
    LET inst == PyIndex(code.instructions, offset) IN
    IF is_class_code /\ inst.opname = "LOAD_NAME"
    THEN acc
    ELSE IF inst.arg = NoArg
    THEN Raise(acc, "AssertionError")
    ELSE IF ~InRange(code.co_names, inst.arg)
    THEN Raise(acc, "IndexError")
    ELSE [acc EXCEPT !.globals_read = @ \cup {PyIndex(code.co_names, inst.arg)}]

\* inst.opname == "MAKE_FUNCTION"
OnMakeFunction(code, offset, is_function_code, is_class_code, acc) ==
    LET instructions == code.instructions
        const_offset == PyIndex(instructions, offset - 2).arg
    IN
    IF const_offset = NoArg
    THEN Raise(acc, "AssertionError")
    ELSE IF ~InRange(code.co_consts, const_offset)
    THEN Raise(acc, "IndexError")
    ELSE IF offset >= 3 /\ PyIndex(instructions, offset - 3).opname = "LOAD_BUILD_CLASS"
    THEN [acc EXCEPT !.class_codes = @ \cup {PyIndex(code.co_consts, const_offset)}]
    ELSE [acc EXCEPT !.func_codes = @ \cup {PyIndex(code.co_consts, const_offset)}]

\* for offset, inst in enumerate(instructions), from offset on
RECURSIVE ExtractFrom(_, _, _, _, _)
ExtractFrom(code, is_function_code, is_class_code, offset, acc) ==
    IF acc.error # "" \/ offset >= Len(code.instructions)
    THEN acc
    ELSE LET opname == PyIndex(code.instructions, offset).opname
             after ==
                 IF opname = "IMPORT_NAME"
                 THEN OnImportName(code, offset, is_function_code, is_class_code, acc)
                 ELSE IF IsStoreOp(opname)
                 THEN OnStore(code, offset, is_function_code, is_class_code, acc)
                 ELSE IF IsLoadOp(opname)
                 THEN OnLoad(code, offset, is_function_code, is_class_code, acc)
                 ELSE IF opname = "MAKE_FUNCTION"
                 THEN OnMakeFunction(code, offset, is_function_code, is_class_code, acc)
                 ELSE acc
         IN ExtractFrom(code, is_function_code, is_class_code, offset + 1, after)

extract_single(code, is_function_code, is_class_code) ==
    ExtractFrom(code, is_function_code, is_class_code, 0, NoneYet)

(***************************************************************************)
(* _bytecode_tools: _all_code_objects, _is_code_for_function and           *)
(* extract_bytecode_info.  A code object is named by its unit.             *)
(***************************************************************************)
\* parents.get(current, [])
ParentsGet(current) == IF current \in DOMAIN parents THEN parents[current] ELSE <<>>

\* The code objects among current.co_consts, in order.
RECURSIVE CodeConsts(_)
CodeConsts(consts) ==
    IF consts = <<>> THEN <<>>
    ELSE (IF Head(consts).t = "code" THEN <<Head(consts).v>> ELSE <<>>)
         \o CodeConsts(Tail(consts))

\* parents after the loop over current.co_consts: each nested code object
\* gets the chain of current followed by itself.
RECURSIVE ParentsAfter(_, _, _)
ParentsAfter(par, chain, values) ==
    IF values = <<>> THEN par
    ELSE ParentsAfter(DictSet(par, Head(values), Append(chain, Head(values))),
                      chain, Tail(values))

is_code_for_function(code, code_parents, func_codes) ==
    \/ ConstCode(code) \in func_codes
    \/ \E i \in 1..Len(code_parents) : ConstCode(code_parents[i]) \in func_codes

\* all_imports += imports
MergeImports(all, found) == all \o found

\* One round of the loop of extract_bytecode_info: _all_code_objects pops and
\* yields the next code object, the body scans it and merges what it found,
\* and the generator queues the nested code objects.
extract_step ==
    /\ status = "running"
    /\ work_q # <<>>
    /\ LET current == Head(work_q)
           code_parents == ParentsGet(current)
           found == extract_single(units[current],
                        is_code_for_function(current, code_parents, all_func_codes),
                        ConstCode(current) \in all_class_codes)
           nested == CodeConsts(units[current].co_consts)
       IN
       IF found.error # ""
       THEN /\ status' = found.error
            /\ UNCHANGED <<work_q, parents, all_imports, all_globals_written,
                           all_globals_read, all_func_codes, all_class_codes>>
       ELSE /\ all_imports' = MergeImports(all_imports, found.imports)
            /\ all_globals_written' = all_globals_written \cup found.globals_written
            /\ all_globals_read' = all_globals_read \cup found.globals_read
            /\ all_func_codes' = all_func_codes \cup found.func_codes
            /\ all_class_codes' = all_class_codes \cup found.class_codes
            /\ work_q' = Tail(work_q) \o nested
            /\ parents' = ParentsAfter(parents, code_parents, nested)
            /\ UNCHANGED status
    /\ UNCHANGED <<program, units>>
    /\ UNCHANGED graphVars

\* The work queue is empty: return all_imports, all_globals_written,
\* all_globals_read.
extract_return ==
    /\ status = "running"
    /\ work_q = <<>>
    /\ status' = "returned"
    /\ UNCHANGED <<program, units, work_q, parents, all_imports, all_globals_written,
                   all_globals_read, all_func_codes, all_class_codes>>
    /\ UNCHANGED graphVars

\* No analysis is running.
BytecodeIdle ==
    /\ program = <<>>
    /\ units = <<>>
    /\ work_q = <<>>
    /\ parents = <<>>
    /\ all_imports = <<>>
    /\ all_globals_written = {}
    /\ all_globals_read = {}
    /\ all_func_codes = {}
    /\ all_class_codes = {}
    /\ status = "idle"

\* extract_bytecode_info(code) entered with the code object of a module.
BytecodeInit ==
    /\ Programs
    /\ units = Compile(program)
    /\ work_q = <<1>>
    /\ parents = <<>>
    /\ all_imports = <<>>
    /\ all_globals_written = {}
    /\ all_globals_read = {}
    /\ all_func_codes = {}
    /\ all_class_codes = {}
    /\ status = "running"

BytecodeNext ==
    \/ extract_step
    \/ extract_return

GraphInit ==
    /\ nodes = <<>>
    /\ roots = {}
    /\ edges = <<>>
    /\ result = Outcome("__init__", "None", "")
    /\ gen = NoGen
    /\ stack = <<>>
    /\ visited = {}
    /\ yielded = <<>>
    /\ qit = NoIter
    /\ hist = [pure |-> TRUE, all |-> {}]

\* The mutators, with every reference, attribute and merge function.
GraphNext ==
    \/ \E n \in MutObjects : add_node(n)
    \/ \E r \in MutRefs : add_root(r)
    \/ \E s \in MutRefs, d \in MutRefs, a \in Attrs, m \in MergeFns :
          add_edge(s, d, a, m)

\* next() on the traversal generator: the caller's call and the steps the
\* generator runs before it yields, ends or fails.
TraversalNext ==
    \/ iter_graph_first
    \/ iter_graph_resume
    \/ iter_graph_ended
    \/ iter_graph_changed
    \/ iter_graph_next
    \/ iter_graph_return

\* The references of the traversal runs: "a" and "b" by their identifier, "c"
\* by an object that is not the stored one.
TravRefs == {StrRef("a"), StrRef("b"), ObjRef(Node("c", 3))}

\* The _visited arguments of the traversal runs: omitted, or a set that
\* holds "b".
VisitedArgs == {NoVisited, Visited({"b"})}

\* Building a graph (edges without attributes) and traversing it, the graph
\* changing under the traversal.
IterNext ==
    \/ \E n \in IterObjects : add_node(n)
    \/ \E r \in TravRefs : add_root(r)
    \/ \E s \in TravRefs, d \in TravRefs : add_edge(s, d, {}, "None")
    \/ \E r \in TravRefs, v \in VisitedArgs : iter_graph(r, TRUE, v)
    \/ \E v \in VisitedArgs : iter_graph(NoRef, FALSE, v)
    \/ TraversalNext

\* The references of the query runs: every identifier as a string, and an
\* object that carries the identifier "a" and is never the stored node.
QueryRefs == {StrRef(i) : i \in Ids} \cup {ObjRef(Node("a", 3))}

\* The mutators and the queries that return a value.
QueryNext ==
    \/ \E n \in MutObjects : add_node(n)
    \/ \E r \in QueryRefs : add_root(r)
    \/ \E s \in QueryRefs, d \in QueryRefs, a \in Attrs, m \in MergeFns :
          add_edge(s, d, a, m)
    \/ \E r \in QueryRefs : call_find_node(r)
    \/ \E r \in QueryRefs : call_contains(r)
    \/ \E s \in QueryRefs, d \in QueryRefs : edge_data(s, d)

\* The objects and references of the runs with every call: "b" and "c" are
\* stored, by one object each, and "a" stays absent.  "b" is referred to by
\* an object that is not the stored one, the others by their identifier.
CallObjects == {Node("b", 1), Node("c", 1)}
CallRefs == {StrRef("a"), ObjRef(Node("b", 3)), StrRef("c")}

\* The sources of the edges, the roots and the start nodes of these runs:
\* "c" gets no outgoing edge and is no root.
CallSources == {StrRef("a"), ObjRef(Node("b", 3))}

\* Every call of the graph: the mutators, the queries and the traversal, the
\* graph changing under the iterators.
CallsNext ==
    \/ \E n \in CallObjects : add_node(n)
    \/ \E r \in CallSources : add_root(r)
    \/ \E s \in CallSources, d \in CallRefs, a \in Attrs, m \in {"None", "union"} :
          add_edge(s, d, a, m)
    \/ \E r \in CallRefs : call_find_node(r)
    \/ \E r \in CallRefs : call_contains(r)
    \/ \E s \in CallRefs, d \in CallRefs : edge_data(s, d)
    \/ \E r \in CallRefs : call_outgoing(r)
    \/ \E r \in CallRefs : call_incoming(r)
    \/ call_roots
    \/ call_nodes
    \/ call_edges
    \/ iterator_next
    \/ \E r \in CallSources : iter_graph(r, TRUE, NoVisited)
    \/ iter_graph(NoRef, FALSE, NoVisited)
    \/ TraversalNext

Init == GraphInit /\ BytecodeIdle
Next == GraphNext
vars == <<graphVars, bcVars>>
Spec == Init /\ [][Next]_vars
SpecIter == Init /\ [][IterNext]_vars
SpecQuery == Init /\ [][QueryNext]_vars
SpecCalls == Init /\ [][CallsNext]_vars
InitBytecode == GraphInit /\ BytecodeInit
SpecBytecode == InitBytecode /\ [][BytecodeNext]_vars

\* A next() that runs the generator runs it until it yields, ends or fails.
SpecIterFair == SpecIter /\ WF_vars(iter_graph_changed \/ iter_graph_next \/ iter_graph_return)

(***************************************************************************)
(* Vocabulary of the properties.                                           *)
(***************************************************************************)
Absent(ref) == ref.identifier \notin DOMAIN nodes

GraphUnchanged == /\ nodes' = nodes
                  /\ roots' = roots
                  /\ edges' = edges

\* The nodes reachable from the set S by zero or more stored edges.
RECURSIVE Closure(_)
Closure(S) ==
    LET more == S \cup {k[2] : k \in {e \in DOMAIN edges : e[1] \in S}}
    IN IF more = S THEN S ELSE Closure(more)

\* The nodes reachable from the set S by zero or more stored edges along
\* paths that enter no node of X (the members of S that are in X included).
RECURSIVE Reach(_, _)
Reach(S, X) ==
    LET from == S \ X
        more == from \cup ({k[2] : k \in {e \in DOMAIN edges : e[1] \in from}} \ X)
    IN IF more = from THEN from ELSE Reach(more, X)

\* The traversal has been read to its end (StopIteration).
Exhausted == gen.state = "exhausted"

\* The traversal was begun by iter_graph() or iter_graph(node=...), the
\* calls of the documented interface: no _visited set was passed.
Plain == gen.fresh

\* The start set of the traversal: the roots, or the given start node.
StartSet == IF gen.given THEN {gen.start.identifier} ELSE roots

YieldedIds == {yielded[i].identifier : i \in 1..Len(yielded)}
NoRepeat == \A i, j \in 1..Len(yielded) :
                yielded[i].identifier = yielded[j].identifier => i = j
PosOf(n) == CHOOSE i \in 1..Len(yielded) : yielded[i].identifier = n

(***************************************************************************)
(* C1: after any sequence of add_node, add_root and add_edge calls,        *)
(* failing ones included, every root identifier is a key of the node map   *)
(* and both endpoints of every edge key are keys of the node map.          *)
(***************************************************************************)
C1_RootsAndEndpointsAreNodes ==
    /\ roots \subseteq DOMAIN nodes
    /\ \A k \in DOMAIN edges : k[1] \in DOMAIN nodes /\ k[2] \in DOMAIN nodes

\* A failing call on a graph that has a root and an edge.
C1_Witness ==
    /\ result.exc = "KeyError"
    /\ roots # {}
    /\ DOMAIN edges # {}

(***************************************************************************)
(* C2: iter_graph yields exactly the reachability closure of its start set *)
(* (the roots, or the given start node), each node once.  The closure is   *)
(* that of the graph the traversal ran over: it is compared with what a    *)
(* traversal read to its end has yielded when no call changed the roots or *)
(* the edges since iter_graph was called.  Before the end, and on a graph  *)
(* that grows meanwhile, no node is yielded twice and no node outside the  *)
(* closure is yielded.  A caller that passes its own _visited set gets the *)
(* closure along the paths that enter none of its members.                 *)
(***************************************************************************)
C2_YieldsClosureOfUnchangedGraph ==
    /\ NoRepeat
    /\ YieldedIds \subseteq Closure(StartSet)
    /\ YieldedIds \subseteq Reach(StartSet, gen.skip)
    /\ \A i \in 1..Len(yielded) : yielded[i] = nodes[yielded[i].identifier]
    /\ (Exhausted /\ gen.intact) =>
          /\ Plain => YieldedIds = Closure(StartSet)
          /\ YieldedIds = Reach(StartSet, gen.skip)
    /\ (gen.state = "failed" /\ gen.intact) => (gen.given /\ yielded = <<>>)

\* A traversal from two roots that share a descendant has been read to its
\* end on a graph no call changed meanwhile.
C2_Witness ==
    /\ Exhausted
    /\ Plain
    /\ gen.intact
    /\ ~gen.given
    /\ Cardinality(roots) = 2
    /\ Len(yielded) = 3
    /\ \E n \in DOMAIN nodes \ roots :
          \A r \in roots : <<r, n>> \in DOMAIN edges

(***************************************************************************)
(* C3: add_edge on a pair that already has an edge fails with DuplicateEdge *)
(* (ValueError) when no merge function is passed, and otherwise replaces   *)
(* the stored attribute by merge(existing, new); either way the set of     *)
(* edge keys is unchanged, so after calls that all passed set-union the    *)
(* stored attribute is the union of the attributes supplied.               *)
(***************************************************************************)
\* A step add_edge makes on a stored pair.  The pair is named by its two
\* identifiers: a call that names a node by an object makes the same step,
\* find_node looking both kinds of reference up by the identifier.
C3_ExistingEdgeStep ==
    result'.op = "add_edge" =>
        \A key \in DOMAIN edges, a \in Attrs, m \in MergeFns :
            add_edge(StrRef(key[1]), StrRef(key[2]), a, m) =>
                /\ DOMAIN edges' = DOMAIN edges
                /\ \A k \in DOMAIN edges \ {key} : edges'[k] = edges[k]
                /\ IF m = "None"
                   THEN /\ result'.exc = DuplicateEdge
                        /\ edges'[key] = edges[key]
                   ELSE /\ result'.exc = "None"
                        /\ edges'[key] = IF m = "union" THEN edges[key] \cup a ELSE a

C3_UnionOfSupplied ==
    (hist.pure /\ TrackedPair \in DOMAIN edges) => edges[TrackedPair] = hist.all

C3_DuplicateEdgeOrMerge ==
    /\ []C3_UnionOfSupplied
    /\ [][C3_ExistingEdgeStep]_vars

\* The only edge was stored empty and a later call merged {"x"} into it by union.
C3_Witness ==
    /\ result = Outcome("add_edge", "None", "merged")
    /\ DOMAIN edges = {TrackedPair}
    /\ hist = [pure |-> TRUE, all |-> {"x"}]
    /\ edges[TrackedPair] = {"x"}

(***************************************************************************)
(* C7 as claimed: for every stored edge s -> d between two distinct nodes  *)
(* that are both yielded, s is yielded before d.                           *)
(***************************************************************************)
C7_EveryEdgeSourceFirst ==
    \A k \in DOMAIN edges :
        (k[1] # k[2] /\ k[1] \in YieldedIds /\ k[2] \in YieldedIds)
            => PosOf(k[1]) < PosOf(k[2])

(***************************************************************************)
(* C7 amended: for every stored edge s -> d between two distinct yielded   *)
(* nodes, s is yielded before d when every path of stored edges from the   *)
(* start set to d passes through s, that is when d cannot be reached from  *)
(* the start set without entering s (nor a node of a _visited set that the *)
(* caller passed, which the traversal does not enter).                     *)
(***************************************************************************)
OnEveryPathTo(s, d) == d \notin Reach(StartSet, gen.skip \cup {s})

C7_SourceOnEveryPathFirst ==
    \A k \in DOMAIN edges :
        (k[1] # k[2] /\ k[1] \in YieldedIds /\ k[2] \in YieldedIds
            /\ OnEveryPathTo(k[1], k[2]))
            => PosOf(k[1]) < PosOf(k[2])

\* A traversal read to its end has yielded a, b and c over the edges a -> b,
\* b -> c and a -> c: every path to c passes through a, which has an edge to
\* c, although c has a second incoming edge.
C7_Witness ==
    /\ Exhausted
    /\ Len(yielded) = 3
    /\ \E k \in DOMAIN edges, e \in DOMAIN edges :
          /\ k[1] # k[2]
          /\ OnEveryPathTo(k[1], k[2])
          /\ e[2] = k[2]
          /\ e[1] \notin {k[1], k[2]}
          /\ e[1] \in YieldedIds
          /\ {k[1], k[2]} \subseteq YieldedIds

(***************************************************************************)
(* C8: add_root, add_edge (missing source, missing destination) and        *)
(* iter_graph with a start node fail with NodeNotFound (KeyError) on a     *)
(* reference to an absent node, and none of them creates the node.         *)
(* iter_graph looks its start node up when the traversal is first          *)
(* advanced, and fails then.                                               *)
(***************************************************************************)
C8_Fails(op) ==
    /\ result'.op = op
    /\ result'.exc = NodeNotFound
    /\ GraphUnchanged

C8_MissingNodeStep ==
    /\ \A r \in TravRefs :
          (Absent(r) /\ add_root(r)) => C8_Fails("add_root")
    /\ \A s \in TravRefs, d \in TravRefs :
          ((Absent(s) \/ Absent(d)) /\ add_edge(s, d, {}, "None"))
              => C8_Fails("add_edge")
    /\ (gen.given /\ Absent(gen.start) /\ iter_graph_first)
          => C8_Fails("iter_graph") /\ yielded' = <<>> /\ gen'.state = "failed"

C8_NodeNotFound == [][C8_MissingNodeStep]_vars

\* A traversal of a graph that has nodes failed on its absent start node.
C8_Witness ==
    /\ result = Outcome("iter_graph", "KeyError", "Start node not found")
    /\ gen.state = "failed"
    /\ nodes # <<>>
    /\ Absent(gen.start)

(***************************************************************************)
(* C9: iter_graph terminates on every graph: every next() on the generator *)
(* returns (with a node, StopIteration or an exception) after finitely     *)
(* many steps, no step yields a node that is already in the visited set,   *)
(* and the sequence yielded is never longer than the number of nodes.      *)
(***************************************************************************)
C9_NoRevisitStep ==
    yielded' # yielded /\ yielded' # <<>> =>
        /\ Len(yielded') = Len(yielded) + 1
        /\ yielded'[Len(yielded')].identifier \notin visited
        /\ visited' = visited \cup {yielded'[Len(yielded')].identifier}
        /\ Len(yielded') <= Cardinality(DOMAIN nodes')

C9_Terminates ==
    /\ [][C9_NoRevisitStep]_vars
    /\ (gen.state = "running") ~> (gen.state # "running")

\* A traversal that met a cycle through its root (a -> b -> a) and a
\* self-loop has been read to its end.
C9_Witness ==
    /\ Exhausted
    /\ ~gen.given
    /\ \E r \in roots, n \in DOMAIN nodes :
          /\ r # n
          /\ <<r, n>> \in DOMAIN edges
          /\ <<n, r>> \in DOMAIN edges
          /\ <<n, n>> \in DOMAIN edges
          /\ {r, n} \subseteq YieldedIds

(***************************************************************************)
(* C12: the graph only grows.  No step of any operation removes a node     *)
(* identifier, a root identifier or an edge key: find_node on a reference  *)
(* that found a node finds the same node after the step, a pair that has   *)
(* an edge keeps its key and both its nodes (so edge_data still succeeds), *)
(* and a root stays a root.                                                *)
(***************************************************************************)
C12_GrowStep ==
    /\ DOMAIN nodes \subseteq DOMAIN nodes'
    /\ roots \subseteq roots'
    /\ DOMAIN edges \subseteq DOMAIN edges'
    /\ \A k \in DOMAIN nodes :
          /\ find_node(StrRef(k))' = find_node(StrRef(k))
          /\ find_node(ObjRef(nodes[k]))' = nodes[k]
    /\ \A k \in DOMAIN edges : {k[1], k[2]} \subseteq DOMAIN nodes'

C12_GraphOnlyGrows == [][C12_GrowStep]_vars

\* edge_data succeeds on a graph with two roots and two edges, after the
\* calls that built it.
C12_Witness ==
    /\ result.op = "edge_data"
    /\ result.exc = "None"
    /\ Cardinality(roots) = 2
    /\ Cardinality(DOMAIN edges) >= 2

(***************************************************************************)
(* C14: edge_data(source, destination) returns the attribute stored for    *)
(* the pair, and on two present nodes without an edge it fails with an     *)
(* exception (NoSuchEdge) that differs from those of NodeNotFound,         *)
(* DuplicateNode and DuplicateEdge.                                        *)
(***************************************************************************)
C14_EdgeDataOrNoSuchEdge ==
    \A s \in QueryRefs, d \in QueryRefs :
        LET from_node == find_node(s)
            to_node == find_node(d)
            key == <<from_node.identifier, to_node.identifier>>
        IN
        (from_node # None /\ to_node # None) =>
            IF key \in DOMAIN edges
            THEN EdgeData(s, d) = Returns("edge_data", edges[key])
            ELSE EdgeData(s, d).exc \notin {"None", NodeNotFound, DuplicateNode, DuplicateEdge}

(***************************************************************************)
(* C15: node identifiers are unique keys.  add_node with a node whose      *)
(* identifier is present fails with DuplicateNode and find_node keeps      *)
(* returning the node stored first; add_node with a new identifier inserts *)
(* exactly that node, keeps every other node, and creates no edge and no   *)
(* root.                                                                   *)
(***************************************************************************)
C15_AddNodeStep ==
    result'.op = "add_node" =>
        \A n \in MutObjects :
            add_node(n) =>
                /\ roots' = roots
                /\ edges' = edges
                /\ \A k \in DOMAIN nodes : find_node(StrRef(k))' = nodes[k]
                /\ IF n.identifier \in DOMAIN nodes
                   THEN /\ result'.exc = DuplicateNode
                        /\ nodes' = nodes
                        /\ find_node(ObjRef(n))' = nodes[n.identifier]
                   ELSE /\ result'.exc = "None"
                        /\ DOMAIN nodes' = DOMAIN nodes \cup {n.identifier}
                        /\ find_node(ObjRef(n))' = n

C15_UniqueIdentifiers == [][C15_AddNodeStep]_vars

\* add_node has been refused on a graph that holds the second of the two
\* objects with identifier "a", which has an edge and is a root.
C15_Witness ==
    /\ result.op = "add_node"
    /\ result.exc = DuplicateNode
    /\ "a" \in roots
    /\ DOMAIN edges # {}
    /\ nodes["a"] = Node("a", 2)

(***************************************************************************)
(* C19: each graph operation changes only its own part of the state.  A    *)
(* successful add_node changes only the node map, a successful add_root    *)
(* only the root set, a successful add_edge only the attribute of the one  *)
(* key (source, destination); every failing call and every query           *)
(* (find_node, edge_data, outgoing, incoming, roots, nodes, edges,         *)
(* iter_graph), the reading of their iterators included, leaves nodes,     *)
(* roots and edges exactly as they were.                                   *)
(***************************************************************************)
Queries == {"find_node", "__contains__", "edge_data", "outgoing", "incoming",
            "roots", "nodes", "edges", "iter_graph"}

\* The two dictionaries agree everywhere but possibly at key.
SameBut(old, new, key) ==
    /\ DOMAIN new = DOMAIN old \cup {key}
    /\ \A k \in DOMAIN old \ {key} : new[k] = old[k]

\* A step that changes the graph is the call whose outcome is result'; a
\* step inside next() keeps the outcome of the call before it and changes
\* nothing of the graph.
C19_FrameStep ==
    LET call == result' IN
    /\ call.exc # "None" => GraphUnchanged
    /\ call.op \in Queries => GraphUnchanged
    /\ call.op = "add_node" =>
          /\ roots' = roots
          /\ edges' = edges
          /\ \/ nodes' = nodes
             \/ \E k \in DOMAIN nodes' \ DOMAIN nodes : SameBut(nodes, nodes', k)
    /\ call.op = "add_root" =>
          /\ nodes' = nodes
          /\ edges' = edges
    /\ call.op = "add_edge" =>
          /\ nodes' = nodes
          /\ roots' = roots
          /\ \/ edges' = edges
             \/ \E k \in DOMAIN edges' : SameBut(edges, edges', k)
    /\ GraphUnchanged \/ (call.op \in {"add_node", "add_root", "add_edge"} /\ call.exc = "None")

C19_FrameEffects == [][C19_FrameStep]_vars

\* A query has failed, or an iterator or a traversal has been read to its
\* end, on a graph with a node, a root and an edge.
C19_Witness ==
    /\ nodes # <<>> /\ roots # {} /\ edges # <<>>
    /\ \/ result.op = "edge_data" /\ result.exc # "None"
       \/ Exhausted /\ yielded # <<>>
       \/ qit.state = "exhausted" /\ qit.op = "edges"

(***************************************************************************)
(* C20: in the sequence yielded by iter_graph, every yielded node is       *)
(* either a traversal start (the given start node, or a root when no start *)
(* is given) or is preceded in the sequence by at least one node that has  *)
(* a stored edge to it.                                                    *)
(***************************************************************************)
DiscoveredAt(i) ==
    \E j \in 1..(i - 1) :
        <<yielded[j].identifier, yielded[i].identifier>> \in DOMAIN edges

C20_DiscovererYieldedFirst ==
    \A i \in 1..Len(yielded) :
        yielded[i].identifier \in StartSet \/ DiscoveredAt(i)

\* A traversal of a -> b, a -> c from a has been read to its end: the third
\* node yielded was discovered through the first, not the second.
C20_Witness ==
    /\ Exhausted
    /\ Len(yielded) = 3
    /\ yielded[3].identifier \notin StartSet
    /\ <<yielded[1].identifier, yielded[3].identifier>> \in DOMAIN edges
    /\ <<yielded[2].identifier, yielded[3].identifier>> \notin DOMAIN edges

(***************************************************************************)
(* Vocabulary of the analyzer's properties, read off the module as written *)
(* and off the instructions of its code objects.                           *)
(***************************************************************************)
Returned == status = "returned"
\* The analysis has ended: it returned, or an exception left it.
Ended == status \notin {"idle", "running"}
UnitIds == 1..Len(program)

\* Unit u lies inside a function body: it is the body of a def, or nested at
\* any depth in one.
RECURSIVE InsideFunction(_)
InsideFunction(u) ==
    IF u = 0 THEN FALSE
    ELSE program[u].kind = "function" \/ InsideFunction(program[u].parent)

FunctionBodies == {u \in UnitIds : program[u].kind = "function"}
ClassBodies == {u \in UnitIds : program[u].kind = "class"}

\* Every unit imports a module of its own, which tells where a record is from.
UnitOfImport(rec) == CHOOSE u \in UnitIds : ModuleNames[u] = rec.import_module

\* The name an instruction of unit u refers to (its argval): an entry of the
\* table, which LOAD_GLOBAL indexes by the upper bits of its argument.
NameAt(u, j, table) ==
    LET inst == units[u].instructions[j] IN
    PyIndex(table, IF inst.opname = "LOAD_GLOBAL" THEN inst.arg \div 2 ELSE inst.arg)

\* The names that the instructions with the given opnames in unit u refer to
\* in the given table.
NamesOf(u, opnames, table) ==
    {NameAt(u, i, table) :
        i \in {j \in 1..Len(units[u].instructions) :
                 units[u].instructions[j].opname \in opnames}}

LoadedBy(u, opnames) == NamesOf(u, opnames, units[u].co_names)
LoadedIn(u) == LoadedBy(u, {"LOAD_NAME", "LOAD_GLOBAL"})

\* Names bound in unit u by a store instruction, or as an explicit name of a
\* from-import.
StoredIn(u) ==
    NamesOf(u, {"STORE_NAME", "STORE_GLOBAL"}, units[u].co_names)
    \cup NamesOf(u, {"STORE_FAST"}, units[u].co_varnames)
FromImportNames(u) == NamesOf(u, {"IMPORT_FROM"}, units[u].co_names)
BoundIn(u) == StoredIn(u) \cup FromImportNames(u)

AllNames == UNION {LoadedIn(u) \cup BoundIn(u) : u \in UnitIds}

\* The name is used (as where tells) in a unit of bodies and in no other unit.
OnlyIn(name, where(_), bodies) ==
    /\ \E u \in bodies : name \in where(u)
    /\ \A u \in UnitIds \ bodies : name \notin where(u)

(***************************************************************************)
(* C4: an import record has is_in_function (is_conditional) true exactly   *)
(* when its import instruction lies in a function body or in a unit nested *)
(* at any depth inside one; it is false in the module body and in class    *)
(* bodies outside every function.                                          *)
(***************************************************************************)
C4_ConditionalIffInFunction ==
    \A i \in 1..Len(all_imports) :
        all_imports[i].is_in_function = InsideFunction(UnitOfImport(all_imports[i]))

(***************************************************************************)
(* C5: the analysis of a module with a class body returns, and every name  *)
(* read by a LOAD_NAME instruction located directly in a class body is     *)
(* then in globals_read.                                                   *)
(***************************************************************************)
C5_ClassBodyReadsCounted ==
    (Ended /\ ClassBodies # {}) =>
        /\ Returned
        /\ \A u \in ClassBodies : LoadedBy(u, {"LOAD_NAME"}) \subseteq all_globals_read

(***************************************************************************)
(* C6: a name loaded (LOAD_NAME, LOAD_GLOBAL) only in function bodies is   *)
(* absent from globals_read, and a name stored only in function bodies is  *)
(* absent from globals_written.                                            *)
(***************************************************************************)
C6_FunctionBodiesExcluded ==
    Returned =>
        \A name \in AllNames :
            /\ OnlyIn(name, LoadedIn, FunctionBodies) => name \notin all_globals_read
            /\ OnlyIn(name, StoredIn, FunctionBodies) => name \notin all_globals_written

(***************************************************************************)
(* C10: a name bound (by a store instruction or as an explicit name of a   *)
(* from-import) only by instructions located directly in class bodies is   *)
(* absent from globals_written, wherever the class is defined.             *)
(***************************************************************************)
C10_ClassBodyBindingsExcluded ==
    Returned =>
        \A name \in AllNames :
            OnlyIn(name, BoundIn, ClassBodies) => name \notin all_globals_written

(***************************************************************************)
(* C11: the explicit names of a from-import reach globals_written exactly  *)
(* when the import is in the module-level unit: a module-scope from-import *)
(* puts its names there, and a from-import in a function body or in a      *)
(* class body does not (its names are absent unless another unit binds     *)
(* them).                                                                  *)
(***************************************************************************)
C11_FromNamesWrittenAtModuleLevelOnly ==
    Returned =>
        \A u \in UnitIds : \A name \in FromImportNames(u) :
            IF u = 1
            THEN name \in all_globals_written
            ELSE (\A v \in UnitIds \ {u} : name \notin BoundIn(v))
                     => name \notin all_globals_written

(***************************************************************************)
(* C13: the analyzer returns (for every module whose import instructions   *)
(* each follow their two LOAD_CONST instructions) one import record per    *)
(* IMPORT_NAME instruction of every unit, identical imports included; the  *)
(* records of one unit are in the order of its instructions, and the       *)
(* records of a unit come before the records of every unit nested inside   *)
(* it.                                                                     *)
(***************************************************************************)
\* The positions of the import instructions of unit u, in order.
ImportPositions(u) ==
    SortedSeq({j \in 1..Len(units[u].instructions) :
                  units[u].instructions[j].opname = "IMPORT_NAME"})

\* The records returned for unit u, in the order of the returned list.
RecordsOf(u) ==
    LET FromU(rec) == UnitOfImport(rec) = u
    IN SelectSeq(all_imports, FromU)

\* The explicit names of the import instruction at position j of unit u: the
\* names of the constant loaded just before it, without the star.
ExplicitNames(u, j) ==
    IF j < 2 THEN {}
    ELSE LET fromlist == PyIndex(units[u].co_consts, units[u].instructions[j - 1].arg)
         IN IF fromlist.t = "tuple" THEN SetOfSeq(fromlist.names) \ {"*"} ELSE {}

\* Unit v is written inside unit u, at any depth.
RECURSIVE NestedInside(_, _)
NestedInside(v, u) ==
    IF v = 0 THEN FALSE
    ELSE program[v].parent = u \/ NestedInside(program[v].parent, u)

\* The instruction at position j (counted from 1) of unit u has two LOAD_CONST
\* instructions just before it.
WellPreceded(u, j) ==
    /\ j >= 3
    /\ units[u].instructions[j - 1].opname = "LOAD_CONST"
    /\ units[u].instructions[j - 2].opname = "LOAD_CONST"

HasMalformedImport(u) ==
    \E k \in 1..Len(ImportPositions(u)) : ~WellPreceded(u, ImportPositions(u)[k])

\* No unit of the module has an import instruction that the analyzer is to
\* refuse (C18): every import is the instruction of an import statement.
ImportsWellFormed == \A u \in UnitIds : ~HasMalformedImport(u)

\* The list of records has one record per import instruction of every unit,
\* in the order of the claim.
OneRecordPerImportInOrder ==
    /\ \A u \in UnitIds :
          /\ Len(RecordsOf(u)) = Len(ImportPositions(u))
          /\ \A k \in 1..Len(RecordsOf(u)) :
                RecordsOf(u)[k].import_names = ExplicitNames(u, ImportPositions(u)[k])
    /\ \A i, j \in 1..Len(all_imports) :
          NestedInside(UnitOfImport(all_imports[j]), UnitOfImport(all_imports[i]))
              => i < j

C13_OneRecordPerImportInOrder ==
    (Ended /\ ImportsWellFormed) => (Returned /\ OneRecordPerImportInOrder)

(***************************************************************************)
(* The flags under which the next unit of the work queue is scanned.       *)
(***************************************************************************)
Scanning == status = "running" /\ work_q # <<>>
Current == Head(work_q)
IsFunctionCode == is_code_for_function(Current, ParentsGet(Current), all_func_codes)
IsClassCode == ConstCode(Current) \in all_class_codes

\* The position, in the stream of the unit that encloses u, of the
\* MAKE_FUNCTION instruction that follows the load of the code object of u.
MadeAt(u) ==
    LET code == units[program[u].parent] IN
    CHOOSE j \in 2..Len(code.instructions) :
        /\ code.instructions[j].opname = "MAKE_FUNCTION"
        /\ code.instructions[j - 1].opname = "LOAD_CONST"
        /\ PyIndex(code.co_consts, code.instructions[j - 1].arg) = ConstCode(u)

\* The scope kind of unit u: MODULE for the root, CLASS for a nested unit
\* whose MAKE_FUNCTION comes three positions after LOAD_BUILD_CLASS, FUNCTION
\* for every other nested unit.
ScopeKind(u) ==
    IF u = 1 THEN "MODULE"
    ELSE IF /\ MadeAt(u) > 3
            /\ units[program[u].parent].instructions[MadeAt(u) - 3].opname
                   = "LOAD_BUILD_CLASS"
    THEN "CLASS"
    ELSE "FUNCTION"

(***************************************************************************)
(* C16: every unit is scanned under exactly one scope kind: the root unit  *)
(* as MODULE, a nested unit whose MAKE_FUNCTION comes three positions      *)
(* after LOAD_BUILD_CLASS as CLASS, every other nested unit as FUNCTION; a *)
(* class body nested inside a function is scanned as CLASS and not as      *)
(* FUNCTION; the imports directly in a unit get is_conditional true        *)
(* exactly when its scope kind is FUNCTION.                                *)
(***************************************************************************)
C16_ExactlyOneScopeKind ==
    /\ Scanning =>
          /\ IsClassCode = (ScopeKind(Current) = "CLASS")
          /\ IsFunctionCode = (ScopeKind(Current) = "FUNCTION")
          /\ (program[Current].kind = "class" /\ InsideFunction(program[Current].parent))
                 => (IsClassCode /\ ~IsFunctionCode)
    /\ \A i \in 1..Len(all_imports) :
          all_imports[i].is_in_function =
              (ScopeKind(UnitOfImport(all_imports[i])) = "FUNCTION")

(***************************************************************************)
(* C17: every STORE_NAME and every STORE_GLOBAL instruction located in a   *)
(* unit that is not a class body adds the stored name to globals_written;  *)
(* in particular a STORE_GLOBAL at module scope does.                      *)
(***************************************************************************)
C17_StoreNameAndStoreGlobalRecorded ==
    Returned =>
        \A u \in UnitIds :
            program[u].kind # "class" =>
                NamesOf(u, {"STORE_NAME", "STORE_GLOBAL"}, units[u].co_names)
                    \subseteq all_globals_written

(***************************************************************************)
(* C18: an IMPORT_NAME instruction that is not immediately preceded in its *)
(* own unit by two LOAD_CONST instructions makes the analysis fail with an *)
(* AssertionError and emits no record, at every position of the stream,    *)
(* positions 0 and 1 included.                                             *)
(***************************************************************************)
\* Unit u has been handed to _extract_single.
Scanned(u) ==
    /\ u = 1 \/ u \in DOMAIN parents
    /\ \/ u \notin SetOfSeq(work_q)
       \/ status \notin {"running", "returned"} /\ u = Head(work_q)

C18_MalformedImportFails ==
    \A u \in UnitIds :
        (Scanned(u) /\ HasMalformedImport(u)) =>
            /\ status = "AssertionError"
            /\ RecordsOf(u) = <<>>

====
